---- MODULE Spec2Model ----
(***************************************************************************)
(* NotificationService (crates/services/src/services/notification.rs).     *)
(*                                                                         *)
(* The process-wide state is the three statics of the file: the two        *)
(* AtomicBool flags of the desktop-bus gate and the OnceLock holding the   *)
(* WSL root path.  Calls of notify / notify_execution_halted run           *)
(* as async tasks; each call slot of Procs holds one call at a time and is *)
(* free again once its caller has taken the return.  A step of a call is   *)
(* the code between two points where another task can observe or change    *)
(* the statics: an access to a static, or an .await on an external         *)
(* command.  Atomic accesses are interleaved in program order.  In a       *)
(* frame, launches and logs are the call's trace (what it spawned and      *)
(* logged so far), given is the config its caller passed, and after_trip   *)
(* says it began after a timed-out toast call had returned; gate is what   *)
(* check_dbus_available returned to it, probe and toast are the outcomes   *)
(* of its bus probe and of its toast worker.                               *)
(*                                                                         *)
(* Text is a sequence of one-character strings; a path or a command's      *)
(* stdout is a sequence of bytes, where "xFF" stands for a byte that is    *)
(* not valid UTF-8 and "uFFFD" for the replacement character.              *)
(***************************************************************************)
EXTENDS Integers, Sequences, FiniteSets, TLC

\* Number of call slots, i.e. of notify calls that can be in flight at once.
NumCalls == 2

Procs == 1..NumCalls

VARIABLES
    target_os,            \* cfg!(target_os = ..): "macos", "linux" or "windows"
    is_wsl2,              \* result of utils::is_wsl2()
    env_disable,          \* DISABLE_DBUS_NOTIFICATIONS is set in the environment
    DBUS_AVAILABLE,       \* static AtomicBool, line 19
    DBUS_CHECK_DONE,      \* static AtomicBool, line 20
    WSL_ROOT_PATH_CACHE,  \* static OnceLock<Option<String>>, line 16
    abandoned,            \* a toast worker abandoned by a timeout may still run
    calls,                \* calls[p]: the call in slot p (its frame and its trace)
    hist                  \* facts about the run so far, read by no step:
                          \* tripped (a call whose toast timed out has
                          \* returned), overlap (two calls were in flight
                          \* at once), env_reads and probes (how often the
                          \* opt-out was read and the probe launched),
                          \* first_run (the outcome of the resolver run
                          \* that initialised the root cache)

vars == <<target_os, is_wsl2, env_disable, DBUS_AVAILABLE, DBUS_CHECK_DONE,
          WSL_ROOT_PATH_CACHE, abandoned, calls, hist>>

statics == <<DBUS_AVAILABLE, DBUS_CHECK_DONE, WSL_ROOT_PATH_CACHE>>

platform == <<target_os, is_wsl2, env_disable>>

----------------------------------------------------------------------------
\* Option<T>: None is the empty sequence, Some(x) the one-element sequence.
None == <<>>

Some(x) == <<x>>

IsSome(o) == o # None

Unwrap(o) == o[1]

\* ExecutionProcessStatus; "Running" is the only non-terminal status.
Statuses == {"Running", "Completed", "Failed", "Killed"}

\* NotificationConfig, reduced to the two flags the service reads.
Configs == [sound_enabled : BOOLEAN, push_enabled : BOOLEAN]

\* Paths that SoundFile::get_path / utils::get_powershell_script may return:
\* absolute, relative, and one of each holding a byte that is not UTF-8.
Paths == { <<"/", "s">>, <<"s">>, <<"xFF", "s">>, <<"/", "xFF">> }

\* What the resolver command may write to stdout.
Outputs == { <<>>, <<" ">>, <<"C">>, <<" ", "C", " ">>, <<"xFF">> }

\* Outcome of `powershell.exe -c (Get-Location).Path ...` .output().await:
\* Err(e) (could not be executed) or Ok(output) with some stdout.
ExecFault == [ok |-> FALSE, stdout |-> <<>>]

ResolverOutcomes == {ExecFault} \cup {[ok |-> TRUE, stdout |-> o] : o \in Outputs}

IsWhitespace(c) == c \in {" ", "\n", "\t", "\r"}

\* Path::to_string_lossy: every invalid byte becomes U+FFFD.
ToStringLossy(bytes) ==
    [i \in 1..Len(bytes) |-> IF bytes[i] = "xFF" THEN "uFFFD" ELSE bytes[i]]

\* String::from_utf8: Err when a byte is invalid, else the same text.
FromUtf8(bytes) ==
    IF \E i \in 1..Len(bytes) : bytes[i] = "xFF" THEN None ELSE Some(bytes)

\* str::trim: drop leading and trailing whitespace.
RECURSIVE TrimStart(_)
TrimStart(s) ==
    IF s # <<>> /\ IsWhitespace(Head(s)) THEN TrimStart(Tail(s)) ELSE s

RECURSIVE TrimEnd(_)
TrimEnd(s) ==
    IF s # <<>> /\ IsWhitespace(s[Len(s)])
    THEN TrimEnd(SubSeq(s, 1, Len(s) - 1))
    ELSE s

Trim(s) == TrimEnd(TrimStart(s))

StartsWithSlash(s) == s # <<>> /\ s[1] = "/"

----------------------------------------------------------------------------
\* A launch attempt: the command, the path string handed to it where the
\* code builds one (powershell.exe), and whether spawn() returned Ok.
Launch(cmd, arg, ok) == [cmd |-> cmd, arg |-> arg, ok |-> ok]

NoArg == <<>>

\* The frame of a call slot with no call in it.
IdleCall ==
    [pc           |-> "idle",
     status       |-> "None",
     given        |-> [sound_enabled |-> FALSE, push_enabled |-> FALSE],
     config       |-> [sound_enabled |-> FALSE, push_enabled |-> FALSE],
     chan         |-> "none",
     file_path    |-> None,
     wsl_root     |-> [called |-> FALSE, val |-> None],
     windows_path |-> [called |-> FALSE, val |-> None],
     is_available |-> FALSE,
     gate         |-> [called |-> FALSE, val |-> FALSE],
     probe        |-> "none",
     toast        |-> "none",
     launches     |-> <<>>,
     logs         |-> <<>>,
     fault        |-> FALSE,
     after_trip   |-> FALSE]

Active(p) == calls[p].pc \notin {"idle", "done"}

\* No call is in flight and every return has been taken.
Quiet == \A q \in Procs : calls[q].pc = "idle"

Init ==
    /\ target_os \in {"macos", "linux", "windows"}
    /\ is_wsl2 \in BOOLEAN
    /\ env_disable \in BOOLEAN
    /\ DBUS_AVAILABLE = TRUE
    /\ DBUS_CHECK_DONE = FALSE
    /\ WSL_ROOT_PATH_CACHE = [init |-> FALSE, val |-> None]
    /\ abandoned = FALSE
    /\ calls = [p \in Procs |-> IdleCall]
    /\ hist = [tripped |-> FALSE, overlap |-> FALSE, env_reads |-> 0, probes |-> 0,
               first_run |-> None]

----------------------------------------------------------------------------
\* Updating the frame of slot p.
Put(p, c) == calls' = [calls EXCEPT ![p] = c]

Log(c, level) == [c EXCEPT !.logs = Append(@, level)]

\* An error arm that hands the error on to the caller instead.
Propagate(c, level) == [Log(c, level) EXCEPT !.fault = TRUE]

\* An error arm (lines 69-72, 187-194, 230, 245-251, 260-263, 313-319,
\* 345-349): the error is logged and dropped, nothing is returned or raised.
Absorb(c, level) == Log(c, level)

\* What a function of the file has returned, for the trace.
Returned(x) == [called |-> TRUE, val |-> x]

Spawn(c, cmd, arg, ok) == [c EXCEPT !.launches = Append(@, Launch(cmd, arg, ok))]

\* HaltedConfig without the override of lines 25-27.
HaltedConfigKeepsSound(status, config) == config

\* notify_execution_halted, lines 25-27: a user-cancelled execution is silent.
HaltedConfig(status, config) ==
    IF status = "Killed" THEN [config EXCEPT !.sound_enabled = FALSE] ELSE config

\* HaltedNotifies without the catch-all arm of lines 43-49.
HaltedNotifiesAny(status) == status \in Statuses

\* notify_execution_halted, lines 30-50: the statuses that build a message.
HaltedNotifies(status) == status \in {"Completed", "Failed", "Killed"}

\* A notify that runs the push channel whatever the config says.
AfterSoundAlwaysPush(c) == [c EXCEPT !.pc = "push", !.chan = "none"]

\* notify, lines 60-62: what follows the audio channel.
AfterSound(c) ==
    [c EXCEPT !.pc = IF c.config.push_enabled THEN "push" ELSE "done",
              !.chan = "none"]

\* The end of a channel: the audio channel returns into notify, the push
\* channel is the last statement of notify.
ChannelDone(c) ==
    IF c.chan = "audio" THEN AfterSound(c)
    ELSE [c EXCEPT !.pc = "done", !.chan = "none"]

\* The frame of a call that begins now in slot p, and the run's history.
NewCall == [IdleCall EXCEPT !.after_trip = hist.tripped]

Begun == [hist EXCEPT !.overlap = @ \/ \E q \in Procs : Active(q)]

\* A call of notify_execution_halted(config, ctx) begins and runs to its
\* return (still running) or to its call of notify (lines 23-51).
NotifyExecutionHalted(p) ==
    /\ calls[p].pc = "idle"
    /\ \E status \in Statuses, config \in Configs :
         LET c == [NewCall EXCEPT !.status = status,
                                  !.given = config,
                                  !.config = HaltedConfig(status, config)]
         IN  IF HaltedNotifies(status)
             THEN Put(p, [c EXCEPT !.pc = "notify"])
             ELSE Put(p, [Log(c, "warn") EXCEPT !.pc = "done"])
    /\ hist' = Begun
    /\ UNCHANGED <<platform, statics, abandoned>>

\* A direct call of notify(config, title, message) begins (line 55), with a
\* config of the set configs.
CallNotify(p, configs) ==
    /\ calls[p].pc = "idle"
    /\ \E config \in configs :
         Put(p, [NewCall EXCEPT !.pc = "notify", !.given = config,
                                !.config = config])
    /\ hist' = Begun
    /\ UNCHANGED <<platform, statics, abandoned>>

\* The caller takes the return of a finished call; the slot is free again.
Return(p) ==
    /\ calls[p].pc = "done"
    /\ Put(p, IdleCall)
    /\ UNCHANGED <<platform, statics, abandoned, hist>>

\* notify, lines 56-62: the audio channel if enabled, then the push channel.
Notify(p) ==
    /\ calls[p].pc = "notify"
    /\ Put(p, IF calls[p].config.sound_enabled
              THEN [calls[p] EXCEPT !.pc = "sound", !.chan = "audio"]
              ELSE AfterSound(calls[p]))
    /\ UNCHANGED <<platform, statics, abandoned, hist>>

----------------------------------------------------------------------------
\* The platform branches of lines 77/81/102 and 125/127/129.
IsMacos == target_os = "macos"

\* A Linux branch that does not ask for WSL2.
IsLinuxAny == target_os = "linux"

IsLinuxNative == target_os = "linux" /\ ~is_wsl2

IsWindowsChain ==
    ~IsMacos /\ ~IsLinuxNative /\ (target_os = "windows" \/ (target_os = "linux" /\ is_wsl2))

\* A chain that goes on after a launch succeeded.
LinuxAudioChainAll(spawned) ==
    <<Launch("paplay", NoArg, spawned["paplay"]),
      Launch("aplay", NoArg, spawned["aplay"]),
      Launch("echo", NoArg, spawned["echo"])>>

\* play_sound_notification, lines 83-101: paplay, then aplay, then the bell.
\* spawned[cmd] is whether spawn() of cmd would return Ok.
LinuxAudioChain(spawned) ==
    IF spawned["paplay"] THEN <<Launch("paplay", NoArg, TRUE)>>
    ELSE IF spawned["aplay"]
         THEN <<Launch("paplay", NoArg, FALSE), Launch("aplay", NoArg, TRUE)>>
         ELSE <<Launch("paplay", NoArg, FALSE), Launch("aplay", NoArg, FALSE),
                Launch("echo", NoArg, spawned["echo"])>>

\* The command each channel hands the path to (lines 114-119, 277-287).
ShellCommand(chan) ==
    IF chan = "audio" THEN "powershell.exe SoundPlayer" ELSE "powershell.exe -File"

\* A translation that puts a Windows separator between root and path.
JoinRootWithSeparator(wsl_root, path_str) ==
    IF IsSome(wsl_root) THEN Some(Unwrap(wsl_root) \o <<"\\">> \o path_str) ELSE None

\* wsl_to_windows_path, lines 339-350, given what get_wsl_root_path returned.
JoinRoot(wsl_root, path_str) ==
    IF IsSome(wsl_root) THEN Some(Unwrap(wsl_root) \o path_str) ELSE None

\* A caller that drops the translation and always passes the path's own text.
PathForShellUntranslated(file_path, windows_path) == ToStringLossy(file_path)

\* Lines 104-112 and 267-275: the translated path, or the path's own text.
PathForShell(file_path, windows_path) ==
    IF IsSome(windows_path) THEN Unwrap(windows_path) ELSE ToStringLossy(file_path)

\* Lines 114-119 and 277-287: the foreign shell is spawned, not awaited.
LaunchShell(c, arg, ok) == ChannelDone(Spawn(c, ShellCommand(c.chan), arg, ok))

\* get_wsl_root_path, lines 303-325: the value one run of the resolver yields.
ResolvedRoot(outcome) ==
    IF ~outcome.ok THEN None
    ELSE IF IsSome(FromUtf8(outcome.stdout))
         THEN Some(Trim(Unwrap(FromUtf8(outcome.stdout))))
         ELSE None

\* OnceLock::set: only the first value offered is kept.
OnceLockSet(cell, v) == IF cell.init THEN cell ELSE [init |-> TRUE, val |-> v]

\* The Windows/WSL2 chain of either channel from the point where the asset
\* path is known (lines 104-119, 267-287) up to the launch of the foreign
\* shell, or up to the resolver's .output().await (line 301).
WindowsChain(p, c, path) ==
    LET path_str == ToStringLossy(path)
        held == [c EXCEPT !.file_path = Some(path),
                          !.wsl_root = IdleCall.wsl_root,
                          !.windows_path = IdleCall.windows_path]
    IN  \E ok \in BOOLEAN :
          IF ~is_wsl2
          THEN Put(p, LaunchShell(held, path_str, ok))
          ELSE IF ~StartsWithSlash(path_str)
          THEN Put(p, LaunchShell(
                        [Log(held, "debug") EXCEPT !.windows_path = Returned(Some(path_str))],
                        path_str, ok))
          ELSE IF WSL_ROOT_PATH_CACHE.init
          THEN LET wsl_root == WSL_ROOT_PATH_CACHE.val
                   windows_path == JoinRoot(wsl_root, path_str)
                   logged == IF IsSome(windows_path) THEN Log(held, "debug")
                             ELSE Absorb(held, "error")
               IN  Put(p, LaunchShell(
                            [logged EXCEPT !.wsl_root = Returned(wsl_root),
                                           !.windows_path = Returned(windows_path)],
                            PathForShell(path, windows_path), ok))
          ELSE Put(p, [Spawn(held, "powershell.exe Get-Location", NoArg, ok)
                         EXCEPT !.pc = "wsl_wait"])

\* play_sound_notification, lines 66-121.
PlaySoundNotification(p) ==
    /\ calls[p].pc = "sound"
    /\ \/ \* sound_file.get_path() failed (lines 69-72)
          Put(p, AfterSound(Absorb(calls[p], "error")))
       \/ /\ IsMacos
          /\ \E ok \in BOOLEAN :
               Put(p, AfterSound(Spawn(calls[p], "afplay", NoArg, ok)))
       \/ /\ IsLinuxNative
          /\ \E spawned \in [{"paplay", "aplay", "echo"} -> BOOLEAN] :
               Put(p, AfterSound([calls[p] EXCEPT
                                    !.launches = @ \o LinuxAudioChain(spawned)]))
       \/ /\ IsWindowsChain
          /\ \E path \in Paths : WindowsChain(p, calls[p], path)
    /\ UNCHANGED <<platform, statics, abandoned, hist>>

\* The resolver command was spawned; the call waits for it to exit (line 301).
ResolverSpawned(p) ==
    calls[p].pc = "wsl_wait" /\ calls[p].launches[Len(calls[p].launches)].ok

\* get_wsl_root_path, lines 296-325, resumes after .output().await: the
\* resolver's result is offered to the cache and returned to
\* wsl_to_windows_path (339-350), whose caller launches the foreign shell.
GetWslRootPath(p) ==
    /\ calls[p].pc = "wsl_wait"
    /\ \E outcome \in ResolverOutcomes, ok \in BOOLEAN :
         LET c == calls[p]
             wsl_root == ResolvedRoot(outcome)
             path == Unwrap(c.file_path)
             windows_path == JoinRoot(wsl_root, ToStringLossy(path))
             resolved == IF outcome.ok /\ IsSome(wsl_root) THEN Log(c, "info")
                         ELSE Absorb(c, "error")
             logged == IF IsSome(windows_path) THEN Log(resolved, "debug")
                       ELSE Absorb(resolved, "error")
         IN  /\ ResolverSpawned(p) \/ outcome = ExecFault
             /\ WSL_ROOT_PATH_CACHE' = OnceLockSet(WSL_ROOT_PATH_CACHE, wsl_root)
             /\ hist' = [hist EXCEPT !.first_run =
                           IF WSL_ROOT_PATH_CACHE.init THEN @ ELSE Some(outcome)]
             /\ Put(p, LaunchShell(
                         [logged EXCEPT !.wsl_root = Returned(wsl_root),
                                        !.windows_path = Returned(windows_path)],
                         PathForShell(path, windows_path), ok))
    /\ UNCHANGED <<platform, DBUS_AVAILABLE, DBUS_CHECK_DONE, abandoned>>

----------------------------------------------------------------------------
\* send_push_notification -> send_macos_notification, lines 125-126, 135-146.
SendMacosNotification(p) ==
    /\ calls[p].pc = "push"
    /\ IsMacos
    /\ \E ok \in BOOLEAN :
         Put(p, ChannelDone(Spawn([calls[p] EXCEPT !.chan = "push"],
                                  "osascript", NoArg, ok)))
    /\ UNCHANGED <<platform, statics, abandoned, hist>>

\* send_push_notification -> send_windows_notification, lines 129-130, 257-288.
SendWindowsNotification(p) ==
    /\ calls[p].pc = "push"
    /\ IsWindowsChain
    /\ LET c == [calls[p] EXCEPT !.chan = "push"]
       IN  \/ \* utils::get_powershell_script() failed (lines 260-263)
              Put(p, ChannelDone(Absorb(c, "error")))
           \/ \E path \in Paths : WindowsChain(p, c, path)
    /\ UNCHANGED <<platform, statics, abandoned, hist>>

\* A push channel that shows the toast whatever the gate returned.
AfterGateAlways(c, available) ==
    [Spawn([c EXCEPT !.gate = Returned(available)], "notify-rust", NoArg, TRUE)
       EXCEPT !.pc = "toast_wait"]

\* send_linux_notification, lines 210-239, once check_dbus_available has
\* returned: skip, or hand the toast to a blocking worker under a 2 s timeout.
AfterGate(c, available) ==
    LET held == [c EXCEPT !.gate = Returned(available)]
    IN  IF available
        THEN [Spawn(held, "notify-rust", NoArg, TRUE) EXCEPT !.pc = "toast_wait"]
        ELSE ChannelDone(Log(held, "debug"))

\* A gate that never sees the opt-out.
OptedOutNever == FALSE

\* check_dbus_available, line 156: DISABLE_DBUS_NOTIFICATIONS is set.
OptedOut == env_disable

\* send_push_notification -> send_linux_notification -> check_dbus_available,
\* lines 127-128, 210, 151-153: the cached verdict.
CheckDbusCached(p) ==
    /\ calls[p].pc = "push"
    /\ IsLinuxNative
    /\ DBUS_CHECK_DONE
    /\ Put(p, AfterGate([calls[p] EXCEPT !.chan = "push"], DBUS_AVAILABLE))
    /\ UNCHANGED <<platform, statics, abandoned, hist>>

\* check_dbus_available, lines 151-157: no verdict yet, the opt-out is set.
CheckDbusDisabled(p) ==
    /\ calls[p].pc = "push"
    /\ IsLinuxNative
    /\ ~DBUS_CHECK_DONE
    /\ OptedOut
    /\ Put(p, [Log(calls[p], "info") EXCEPT !.chan = "push", !.pc = "store_available",
                                            !.is_available = FALSE])
    /\ hist' = [hist EXCEPT !.env_reads = @ + 1]
    /\ UNCHANGED <<platform, statics, abandoned>>

\* check_dbus_available, lines 151-183: no verdict yet, the probe is handed
\* to a blocking worker under a 500 ms timeout.
CheckDbusProbe(p) ==
    /\ calls[p].pc = "push"
    /\ IsLinuxNative
    /\ ~DBUS_CHECK_DONE
    /\ ~OptedOut
    /\ Put(p, [Spawn(calls[p], "dbus-send", NoArg, TRUE)
                 EXCEPT !.chan = "push", !.pc = "probe_wait"])
    /\ hist' = [hist EXCEPT !.env_reads = @ + 1, !.probes = @ + 1]
    /\ UNCHANGED <<platform, statics, abandoned>>

\* What the timeout around the probe worker resolves to (lines 164-183).
ProbeOutcomes == {"success", "failure", "spawn_error", "task_failed", "timeout"}

\* A verdict that takes any exit of the probe command for success.
ProbeVerdictExited(outcome) == outcome \in {"success", "failure"}

\* check_dbus_available, lines 179-195.
ProbeVerdict(outcome) == outcome = "success"

\* check_dbus_available, lines 185-197: the verdict is computed and stored.
ProbeResult(p) ==
    /\ calls[p].pc = "probe_wait"
    /\ \E outcome \in ProbeOutcomes :
         /\ Put(p, [(IF outcome \in {"task_failed", "timeout"}
                     THEN Absorb(calls[p], "warn") ELSE calls[p])
                      EXCEPT !.pc = "store_done",
                             !.probe = outcome,
                             !.is_available = ProbeVerdict(outcome)])
         /\ DBUS_AVAILABLE' = ProbeVerdict(outcome)
    /\ UNCHANGED <<platform, DBUS_CHECK_DONE, WSL_ROOT_PATH_CACHE, abandoned, hist>>

\* check_dbus_available, line 158.
StoreUnavailable(p) ==
    /\ calls[p].pc = "store_available"
    /\ DBUS_AVAILABLE' = FALSE
    /\ Put(p, [calls[p] EXCEPT !.pc = "store_done"])
    /\ UNCHANGED <<platform, DBUS_CHECK_DONE, WSL_ROOT_PATH_CACHE, abandoned, hist>>

\* A gate evaluation that returns its verdict without marking the check done.
StoreCheckDoneSkipped(p) ==
    /\ calls[p].pc = "store_done"
    /\ LET c == calls[p]
           logged == IF ~c.is_available /\ ~env_disable THEN Log(c, "info") ELSE c
       IN  Put(p, AfterGate(logged, c.is_available))
    /\ UNCHANGED <<platform, statics, abandoned, hist>>

\* check_dbus_available, lines 159-160 and 198-204, and its caller's line 210.
StoreCheckDone(p) ==
    /\ calls[p].pc = "store_done"
    /\ DBUS_CHECK_DONE' = TRUE
    /\ LET c == calls[p]
           logged == IF ~c.is_available /\ ~env_disable THEN Log(c, "info") ELSE c
       IN  Put(p, AfterGate(logged, c.is_available))
    /\ UNCHANGED <<platform, DBUS_AVAILABLE, WSL_ROOT_PATH_CACHE, abandoned, hist>>

\* What the toast worker does: show() returns Ok, or an error whose text
\* names the bus, or another error; or the worker panics; or it does not
\* return within the 2 s.
ToastOutcomes == {"shown", "dbus_error", "other_error", "panicked", "timeout"}

\* The worker's closure, lines 224-237: the error's text decides the store.
WorkerTripsBreaker(outcome) == outcome = "dbus_error"

\* send_linux_notification, lines 241-253: the arms that trip the breaker.
CallerTripsBreaker(outcome) == outcome \in {"panicked", "timeout"}

\* The worker's show() returned an error naming the bus (lines 230-236); the
\* closure has not returned to the caller yet.
ToastWorkerError(p) ==
    /\ calls[p].pc = "toast_wait"
    /\ DBUS_AVAILABLE' = FALSE
    /\ Put(p, [Log(Absorb(calls[p], "error"), "info")
                 EXCEPT !.pc = "toast_join", !.toast = "dbus_error"])
    /\ UNCHANGED <<platform, DBUS_CHECK_DONE, WSL_ROOT_PATH_CACHE, abandoned, hist>>

\* send_linux_notification, lines 239-242, after the worker's error.
ToastJoin(p) ==
    /\ calls[p].pc = "toast_join"
    /\ Put(p, ChannelDone(calls[p]))
    /\ UNCHANGED <<platform, statics, abandoned, hist>>

\* send_linux_notification, lines 239-253, for the other outcomes.
ToastResult(p) ==
    /\ calls[p].pc = "toast_wait"
    /\ \E outcome \in ToastOutcomes \ {"dbus_error"} :
         /\ Put(p, ChannelDone([(IF outcome = "shown" THEN calls[p]
                                 ELSE Absorb(calls[p], "error"))
                                  EXCEPT !.toast = outcome]))
         /\ DBUS_AVAILABLE' =
              IF CallerTripsBreaker(outcome) THEN FALSE ELSE DBUS_AVAILABLE
         /\ abandoned' = (abandoned \/ outcome = "timeout")
         /\ hist' = [hist EXCEPT !.tripped = @ \/ outcome = "timeout"]
    /\ UNCHANGED <<platform, DBUS_CHECK_DONE, WSL_ROOT_PATH_CACHE>>

\* A worker whose caller timed out finishes later (lines 224-237): its
\* result is dropped, its store is not.
AbandonedWorker ==
    /\ abandoned
    /\ \E outcome \in ToastOutcomes \ {"panicked", "timeout"} :
         DBUS_AVAILABLE' = IF WorkerTripsBreaker(outcome) THEN FALSE ELSE DBUS_AVAILABLE
    /\ abandoned' \in BOOLEAN
    /\ UNCHANGED <<platform, DBUS_CHECK_DONE, WSL_ROOT_PATH_CACHE, calls, hist>>

----------------------------------------------------------------------------
\* The steps of a call once it has begun.
Body(p) ==
    \/ Notify(p)
    \/ PlaySoundNotification(p)
    \/ GetWslRootPath(p)
    \/ SendMacosNotification(p)
    \/ SendWindowsNotification(p)
    \/ CheckDbusCached(p)
    \/ CheckDbusDisabled(p)
    \/ CheckDbusProbe(p)
    \/ ProbeResult(p)
    \/ StoreUnavailable(p)
    \/ StoreCheckDone(p)
    \/ ToastWorkerError(p)
    \/ ToastJoin(p)
    \/ ToastResult(p)
    \/ Return(p)

\* Spec: every platform and every input, the calls one after the other (a
\* call begins when no other call is in flight); abandoned workers run on.
Next ==
    \/ \E p \in Procs :
         \/ Quiet /\ NotifyExecutionHalted(p)
         \/ Quiet /\ CallNotify(p, Configs)
         \/ Body(p)
    \/ AbandonedWorker

Spec == Init /\ [][Next]_vars

\* SpecGate: concurrent push calls on native Linux, the only calls that touch
\* the two flags of the desktop-bus gate.
PushOnly == {[sound_enabled |-> FALSE, push_enabled |-> TRUE]}

InitGate == Init /\ target_os = "linux" /\ ~is_wsl2

GateStep(p) ==
    \/ CallNotify(p, PushOnly)
    \/ Notify(p)
    \/ CheckDbusCached(p)
    \/ CheckDbusDisabled(p)
    \/ CheckDbusProbe(p)
    \/ ProbeResult(p)
    \/ StoreUnavailable(p)
    \/ StoreCheckDone(p)
    \/ ToastWorkerError(p)
    \/ ToastJoin(p)
    \/ ToastResult(p)
    \/ Return(p)

NextGate == (\E p \in Procs : GateStep(p)) \/ AbandonedWorker

SpecGate == InitGate /\ [][NextGate]_vars

\* FairSpec: Spec with the progress the runtime guarantees.  Every step of a
\* call is taken eventually (timers fire, spawn() returns), except the exit
\* of a spawned resolver command, which is up to that command.
Progress(p) == ~ResolverSpawned(p) /\ Body(p)

FairSpec == Spec /\ \A p \in Procs : WF_vars(Progress(p))

\* SpecRoot: concurrent audio calls under WSL2, the calls that race for the
\* root-path cache.
SoundOnly == {[sound_enabled |-> TRUE, push_enabled |-> FALSE]}

InitRoot == Init /\ target_os = "linux" /\ is_wsl2

RootStep(p) ==
    \/ CallNotify(p, SoundOnly)
    \/ Notify(p)
    \/ PlaySoundNotification(p)
    \/ GetWslRootPath(p)
    \/ Return(p)

NextRoot == \E p \in Procs : RootStep(p)

SpecRoot == InitRoot /\ [][NextRoot]_vars

----------------------------------------------------------------------------
\* The launches of the audio channel in a call's trace.
AudioCommands == {"afplay", "paplay", "aplay", "echo", "powershell.exe SoundPlayer"}

AudioLaunches(c) == SelectSeq(c.launches, LAMBDA l : l.cmd \in AudioCommands)

Cmds(c) == {c.launches[i].cmd : i \in 1..Len(c.launches)}

\* C1: a call of notify_execution_halted whose status is Killed passes a
\* config with sound_enabled = FALSE on to notify, whatever the caller gave;
\* the call never enters the audio channel and launches no audio mechanism.
C1_KilledIsSilent ==
    \A p \in Procs :
      calls[p].status = "Killed" =>
        /\ ~calls[p].config.sound_enabled
        /\ calls[p].pc # "sound" /\ calls[p].chan # "audio"
        /\ AudioLaunches(calls[p]) = <<>>

\* A Killed call whose caller asked for sound and push has returned, with
\* its push channel run.
C1_Witness ==
    \E p \in Procs :
      /\ calls[p].status = "Killed" /\ calls[p].pc = "done"
      /\ calls[p].given.sound_enabled /\ calls[p].given.push_enabled
      /\ calls[p].launches # <<>>

\* C2: a call of notify_execution_halted whose status is not terminal has
\* returned with exactly one log entry, a warning, and no launch, whatever
\* the config; and the step that runs it leaves the statics unchanged.
C2_RunningState ==
    \A p \in Procs :
      calls[p].status = "Running" =>
        /\ calls[p].pc = "done"
        /\ calls[p].logs = <<"warn">>
        /\ calls[p].launches = <<>>

C2_RunningIsNoop ==
    /\ []C2_RunningState
    /\ [][\A p \in Procs :
            (calls[p].pc = "idle" /\ calls'[p].status = "Running")
              => UNCHANGED <<statics, abandoned>>]_vars

C2_Witness ==
    \E p \in Procs :
      /\ calls[p].status = "Running" /\ calls[p].pc = "done"
      /\ calls[p].given.sound_enabled /\ calls[p].given.push_enabled

C4_EveryCallReturns == \A p \in Procs : Active(p) ~> ~Active(p)

\* C5: a call of notify with push_enabled reaches its push channel whatever
\* happens in the audio channel, and one with sound_enabled reaches its audio
\* channel.
C5_ChannelsIndependent ==
    \A p \in Procs :
      /\ (calls[p].pc = "notify" /\ calls[p].config.push_enabled)
           ~> (calls[p].pc = "push")
      /\ (calls[p].pc = "notify" /\ calls[p].config.sound_enabled)
           ~> (calls[p].pc = "sound")

\* The states of the desktop-bus circuit (lines 19-20).
Unknown == ~DBUS_CHECK_DONE

Available == DBUS_CHECK_DONE /\ DBUS_AVAILABLE

Unavailable == DBUS_CHECK_DONE /\ ~DBUS_AVAILABLE

BusCommands == {"dbus-send", "notify-rust"}

\* C6: once the circuit is Unavailable it is Unavailable in every later
\* state, under any interleaving of concurrent Linux push calls.
C6_StickyUnavailable == [][Unavailable => Unavailable']_vars

\* C7: a Linux push call that begins after a push call whose toast timed out
\* has returned launches neither the bus probe nor the toast client.
C7_NoLaunchAfterTimeout ==
    \A p \in Procs :
      calls[p].after_trip =>
        /\ Cmds(calls[p]) \cap BusCommands = {}
        /\ calls[p].pc \notin {"probe_wait", "toast_wait", "toast_join"}

\* C8: with DISABLE_DBUS_NOTIFICATIONS set, no push call launches the bus
\* probe or the toast client under any interleaving; once a gate evaluation
\* has finished the circuit is Unavailable; the variable has been read by
\* then, and read at most once when no two calls overlapped.
C8_OptOut ==
    env_disable =>
      /\ \A p \in Procs :
           /\ Cmds(calls[p]) \cap BusCommands = {}
           /\ calls[p].pc \notin {"probe_wait", "toast_wait", "toast_join"}
           /\ calls[p].pc = "done" => Unavailable
      /\ hist.probes = 0
      /\ ~Available
      /\ DBUS_CHECK_DONE => hist.env_reads >= 1
      /\ ~hist.overlap => hist.env_reads <= 1

\* Two overlapping push calls have both read the opt-out and one has returned.
C8_Witness ==
    /\ env_disable /\ Unavailable
    /\ hist.overlap /\ hist.env_reads = 2
    /\ \E p \in Procs : calls[p].pc = "done"

\* The call in frame c entered notify and its audio channel has run to its end.
AudioDone(c) ==
    /\ c.status # "Running" /\ c.config.sound_enabled
    /\ c.pc \notin {"idle", "notify", "sound"} /\ c.chan # "audio"

AudioOrder == <<"paplay", "aplay", "echo">>

\* C9: on native Linux the audio launches of a call are paplay, aplay, echo
\* in that order; every launch before the last one failed; the chain ends
\* with a launch that failed only at the bell, so 1 attempt when paplay
\* launches, 2 when paplay fails and aplay launches, 3 when both fail; it is
\* empty only when the sound asset could not be resolved.
C9_LinuxAudioChain ==
    IsLinuxNative =>
      \A p \in Procs :
        LET a == AudioLaunches(calls[p])
            n == Len(a)
        IN  /\ n <= 3
            /\ \A i \in 1..n : a[i].cmd = AudioOrder[i]
            /\ \A i \in 1..(n - 1) : ~a[i].ok
            /\ (AudioDone(calls[p]) /\ n > 0 /\ ~a[n].ok) => n = 3
            /\ (AudioDone(calls[p]) /\ n = 0) => Head(calls[p].logs) = "error"

\* paplay failed to launch, aplay launched, and the call has returned.
C9_Witness ==
    /\ IsLinuxNative
    /\ \E p \in Procs :
         /\ calls[p].pc = "done"
         /\ AudioLaunches(calls[p]) =
              <<Launch("paplay", NoArg, FALSE), Launch("aplay", NoArg, TRUE)>>

\* C10 as stated: wsl_to_windows_path(p) returns p itself when p does not
\* start with '/', without asking for the root; and root followed by p when
\* it does and the root resolved.
C10_Original ==
    \A p \in Procs :
      LET c == calls[p]
          path == Unwrap(c.file_path)
      IN  c.windows_path.called =>
            /\ ~StartsWithSlash(path) =>
                 c.windows_path.val = Some(path) /\ ~c.wsl_root.called
            /\ (StartsWithSlash(path) /\ IsSome(c.wsl_root.val)) =>
                 c.windows_path.val = Some(Unwrap(c.wsl_root.val) \o path)

\* C10 amended: the same of the text of p, which is p with every byte that
\* is not UTF-8 replaced by U+FFFD (to_string_lossy): the text unchanged for
\* a p that does not start with '/', the root followed by the text otherwise,
\* nothing inserted, removed or converted between them.
C10_LossyConcatenation ==
    \A p \in Procs :
      LET c == calls[p]
          path == Unwrap(c.file_path)
      IN  c.windows_path.called =>
            /\ ~StartsWithSlash(path) =>
                 c.windows_path.val = Some(ToStringLossy(path)) /\ ~c.wsl_root.called
            /\ (StartsWithSlash(path) /\ IsSome(c.wsl_root.val)) =>
                 /\ c.wsl_root.called
                 /\ c.windows_path.val =
                      Some(Unwrap(c.wsl_root.val) \o ToStringLossy(path))

\* An absolute path with an invalid byte was translated under the root "C".
C10_Witness ==
    \E p \in Procs :
      /\ calls[p].windows_path.called
      /\ calls[p].file_path = Some(<<"/", "xFF">>)
      /\ calls[p].wsl_root = Returned(Some(<<"C">>))
      /\ calls[p].windows_path.val = Some(<<"C", "/", "uFFFD">>)

\* The ways a run of the resolver fails: it could not be executed, its
\* output is not UTF-8, or its output is empty once trimmed.
RunFailed(outcome) ==
    \/ ~outcome.ok
    \/ FromUtf8(outcome.stdout) = None
    \/ Trim(Unwrap(FromUtf8(outcome.stdout))) = <<>>

\* C11: when the resolver run that initialised the root cache failed (could
\* not be executed, wrote bytes that are not UTF-8, or wrote nothing but
\* whitespace), the cache holds Resolved(None); every translation of an
\* absolute path that asked for the root returned nothing; and no call
\* waits for a resolver command any more.
C11_FailureCachesNone ==
    (IsSome(hist.first_run) /\ RunFailed(Unwrap(hist.first_run))) =>
      /\ WSL_ROOT_PATH_CACHE = [init |-> TRUE, val |-> None]
      /\ \A p \in Procs :
           /\ calls[p].pc # "wsl_wait"
           /\ calls[p].wsl_root.called => calls[p].windows_path.val = None

\* C12: the root cache never changes once it is initialised, and whatever
\* get_wsl_root_path has returned to a call is the value the cache holds,
\* also for concurrent first callers whose resolver runs gave different
\* results.
C12_CacheConverges ==
    WSL_ROOT_PATH_CACHE.init =>
      \A p \in Procs :
        calls[p].wsl_root.called => calls[p].wsl_root.val = WSL_ROOT_PATH_CACHE.val

\* The call in frame c is a call of notify with both channels switched off.
BothOff(c) ==
    /\ c.pc # "idle" /\ c.status # "Running"
    /\ ~c.config.sound_enabled /\ ~c.config.push_enabled

C13_State ==
    \A p \in Procs :
      BothOff(calls[p]) =>
        /\ calls[p].pc \in {"notify", "done"} /\ calls[p].chan = "none"
        /\ calls[p].launches = <<>> /\ calls[p].logs = <<>>
        /\ calls[p].file_path = None
        /\ ~calls[p].gate.called /\ calls[p].probe = "none"

\* C13: a call of notify with sound_enabled and push_enabled both false
\* enters neither channel on any platform: it retrieves no asset, launches
\* and logs nothing, and every step of it, from its beginning to its
\* return, leaves the two gate flags and the root cache unchanged and does
\* not read the opt-out variable.
C13_BothOffNoEffect ==
    /\ []C13_State
    /\ [][\A p \in Procs :
            ((BothOff(calls[p]) \/ BothOff(calls'[p])) /\ calls'[p] # calls[p])
              => /\ UNCHANGED <<statics, abandoned>>
                 /\ hist'.env_reads = hist.env_reads
                 /\ hist'.probes = hist.probes
                 /\ hist'.first_run = hist.first_run]_vars

\* A direct call of notify with both channels off has returned, in a process
\* whose gate verdict is already cached.
C13_Witness ==
    \E p \in Procs :
      /\ BothOff(calls[p]) /\ calls[p].status = "None" /\ calls[p].pc = "done"
      /\ DBUS_CHECK_DONE

\* The commands of each platform chain.
MacosCommands == {"afplay", "osascript"}

LinuxCommands == {"paplay", "aplay", "echo", "dbus-send", "notify-rust"}

WindowsCommands ==
    {"powershell.exe SoundPlayer", "powershell.exe -File", "powershell.exe Get-Location"}

\* The chain the claim assigns to the platform.
ClaimedCommands ==
    IF target_os = "macos" THEN MacosCommands
    ELSE IF target_os = "linux" /\ ~is_wsl2 THEN LinuxCommands
    ELSE WindowsCommands

ChainsSelected ==
    (IF IsMacos THEN 1 ELSE 0) + (IF IsLinuxNative THEN 1 ELSE 0)
      + (IF IsWindowsChain THEN 1 ELSE 0)

\* C14: for every target OS and every result of the WSL2 probe exactly one
\* of the three platform branches is selected; Linux with WSL2 selects the
\* Windows/WSL2 chain and not the Linux-native one; and everything a call
\* launches, in its audio channel and in its push channel, belongs to that
\* one chain.
C14_OnePlatform ==
    /\ ChainsSelected = 1
    /\ (target_os = "linux" /\ is_wsl2) => (IsWindowsChain /\ ~IsLinuxNative)
    /\ \A p \in Procs : Cmds(calls[p]) \subseteq ClaimedCommands

\* Under Linux with WSL2 a call has returned after launching the foreign
\* shell in both channels.
C14_Witness ==
    /\ target_os = "linux" /\ is_wsl2
    /\ \E p \in Procs :
         /\ calls[p].pc = "done"
         /\ {"powershell.exe SoundPlayer", "powershell.exe -File"} \subseteq Cmds(calls[p])

\* C15: whenever the toast of a Linux push call ends in a fault (a timeout,
\* an error returned by the toast client whatever its text, or a failure of
\* the worker task), DBUS_AVAILABLE is false at the moment
\* send_linux_notification returns.
C15_FaultTripsBreaker ==
    [][\A p \in Procs :
         (/\ calls[p].pc \in {"toast_wait", "toast_join"}
          /\ calls'[p].pc = "done"
          /\ calls'[p].toast # "shown")
           => ~DBUS_AVAILABLE']_vars

\* C16: once DBUS_CHECK_DONE is true it stays true, and no step launches the
\* bus probe or reads the opt-out variable any more, however many push calls
\* follow and however they interleave; in a run whose calls never overlapped
\* the probe has been launched at most once.
C16_NoProbeOnceCached ==
    /\ [](~hist.overlap => hist.probes <= 1)
    /\ [][DBUS_CHECK_DONE =>
            /\ DBUS_CHECK_DONE'
            /\ hist'.probes = hist.probes
            /\ hist'.env_reads = hist.env_reads
            /\ \A p \in Procs : calls'[p].pc \in {"probe_wait", "store_available"}
                                   => calls[p].pc = calls'[p].pc]_vars

\* A push call that found the verdict cached waits for its toast, in a run
\* without overlap that probed once.
C16_Witness ==
    /\ ~hist.overlap /\ hist.probes = 1
    /\ \E p \in Procs :
         /\ calls[p].pc = "toast_wait"
         /\ calls[p].gate.called /\ calls[p].probe = "none"

ToastLaunches(c) == SelectSeq(c.launches, LAMBDA l : l.cmd = "notify-rust")

C17_State ==
    \A p \in Procs :
      LET c == calls[p]
      IN  /\ Len(ToastLaunches(c)) <= 1
          /\ (Len(ToastLaunches(c)) = 1 \/ c.pc \in {"toast_wait", "toast_join"}
                 \/ c.toast # "none")
               => c.gate = Returned(TRUE)
          /\ c.gate = Returned(FALSE) =>
               /\ ToastLaunches(c) = <<>> /\ c.toast = "none"
               /\ c.pc = "done" /\ c.logs[Len(c.logs)] = "debug"

\* C17: on native Linux a call launches the toast client at most once, and
\* only after check_dbus_available returned true to it; a call to which it
\* returned false launches no toast, logs the skip and returns, and the step
\* in which it learns the verdict and returns changes neither DBUS_AVAILABLE
\* nor the root cache, nor DBUS_CHECK_DONE when the verdict was cached.
C17_ToastOnlyWhenAvailable ==
    /\ []C17_State
    /\ [][\A p \in Procs :
            (~calls[p].gate.called /\ calls'[p].gate = Returned(FALSE))
              => /\ UNCHANGED <<DBUS_AVAILABLE, WSL_ROOT_PATH_CACHE>>
                 /\ calls[p].pc = "push" => UNCHANGED DBUS_CHECK_DONE]_vars

\* One call was refused by the gate and has returned while another, let
\* through by it, waits for its toast.
C17_Witness ==
    \E p, q \in Procs :
      /\ calls[p].gate = Returned(FALSE) /\ calls[p].pc = "done"
      /\ calls[q].pc = "toast_wait"

ProbeLaunches(c) == SelectSeq(c.launches, LAMBDA l : l.cmd = "dbus-send")

C18_State ==
    \A p \in Procs :
      LET c == calls[p]
      IN  /\ (c.pc = "probe_wait" \/ c.probe # "none") => Len(ProbeLaunches(c)) = 1
          /\ (c.probe # "none" /\ c.gate.called)
               => c.gate.val = (c.probe = "success")

\* C18: a gate evaluation that finds the state Unknown and the opt-out unset
\* launches the probe, once; what it returns is true exactly when the probe
\* command exited successfully in time (false for a launch failure, another
\* exit status, a failed worker, a timeout); and when no calls overlapped,
\* the evaluation leaves the circuit in the state it returns: Available for
\* true, Unavailable for false.
C18_ProbeVerdict ==
    /\ []C18_State
    /\ [][\A p \in Procs :
            /\ (calls[p].pc = "push" /\ Unknown /\ ~env_disable
                   /\ calls'[p] # calls[p])
                 => /\ calls'[p].pc = "probe_wait"
                    /\ hist'.probes = hist.probes + 1
            /\ (~hist.overlap /\ calls[p].pc = "store_done"
                   /\ calls[p].probe # "none" /\ calls'[p].gate.called)
                 => /\ DBUS_CHECK_DONE'
                    /\ DBUS_AVAILABLE' = (calls[p].probe = "success")
                    /\ calls'[p].gate.val = DBUS_AVAILABLE']_vars

\* An evaluation that ran alone and whose probe timed out has returned false
\* and left the circuit Unavailable.
C18_Witness ==
    /\ ~hist.overlap /\ Unavailable
    /\ \E p \in Procs :
         calls[p].probe = "timeout" /\ calls[p].gate = Returned(FALSE)

\* C19: when several push calls evaluate the gate concurrently from Unknown,
\* an evaluation whose probe finishes after a verdict has been cached
\* (DBUS_CHECK_DONE is true) does not change the cached DBUS_AVAILABLE.
C19_FirstWriterWins ==
    [][\A p \in Procs :
         (DBUS_CHECK_DONE /\ calls[p].pc = "probe_wait" /\ calls'[p].pc = "store_done")
           => DBUS_AVAILABLE' = DBUS_AVAILABLE]_vars

ShellLaunches(c, chan) ==
    SelectSeq(c.launches, LAMBDA l : l.cmd = ShellCommand(chan))

\* What the claim says the foreign shell receives, given the frame d of the
\* call once the shell is launched.
ClaimedShellPath(d) ==
    IF is_wsl2 /\ IsSome(d.windows_path.val)
    THEN Unwrap(d.windows_path.val)
    ELSE ToStringLossy(Unwrap(d.file_path))

\* The channel of frame c launches the foreign shell in the step from c to d.
LaunchesShell(c, d, chan) ==
    /\ Len(d.launches) = Len(c.launches) + 1
    /\ SubSeq(d.launches, 1, Len(c.launches)) = c.launches
    /\ d.launches[Len(d.launches)].cmd = ShellCommand(chan)
    /\ d.file_path # None
    /\ is_wsl2 = d.windows_path.called
    /\ d.launches[Len(d.launches)].arg = ClaimedShellPath(d)

\* The channel ends in the step from c to d because its path did not resolve.
SkipsChannel(c, d) ==
    /\ d.launches = c.launches
    /\ d.logs = Append(c.logs, "error")
    /\ d.file_path = c.file_path /\ d.windows_path = c.windows_path

\* C20: on the Windows/WSL2 chain a channel, once begun, either ends at
\* once with an error log and no launch (its asset or script path did not
\* resolve), or launches the foreign shell, directly or after waiting for
\* the resolver, with the translated path when the translation returned
\* one and the path's own text otherwise; no call launches the shell more
\* than once per channel, and a channel that has ended with a resolved path
\* has launched it exactly once.
C20_ShellOncePerChannel ==
    /\ [](IsWindowsChain =>
            \A p \in Procs :
              /\ Len(ShellLaunches(calls[p], "audio")) <= 1
              /\ Len(ShellLaunches(calls[p], "push")) <= 1)
    /\ [][IsWindowsChain =>
            \A p \in Procs :
              LET c == calls[p]
                  d == calls'[p]
              IN  /\ (c.pc = "sound" /\ d.pc # "wsl_wait") =>
                       (SkipsChannel(c, d) \/ LaunchesShell(c, d, "audio"))
                  /\ (c.pc = "push" /\ d.pc # "wsl_wait") =>
                       (SkipsChannel(c, d) \/ LaunchesShell(c, d, "push"))
                  /\ (c.pc = "wsl_wait" /\ d.pc # "wsl_wait") =>
                       LaunchesShell(c, d, c.chan)
                  /\ (c.pc # "wsl_wait" /\ d.pc = "wsl_wait") =>
                       /\ c.pc \in {"sound", "push"} /\ is_wsl2
                       /\ ShellLaunches(d, d.chan) = <<>>]_vars

\* Under WSL2 with the root unresolved, a push call whose translation
\* returned nothing has launched the shell with the script path's own text.
C20_Witness ==
    /\ is_wsl2 /\ WSL_ROOT_PATH_CACHE = [init |-> TRUE, val |-> None]
    /\ \E p \in Procs :
         /\ calls[p].pc = "done"
         /\ calls[p].windows_path = Returned(None)
         /\ calls[p].launches[Len(calls[p].launches)] =
              Launch("powershell.exe -File", <<"/", "uFFFD">>, TRUE)

====
